---- MODULE Spec2Model ----
(***************************************************************************)
(* Model of the housing-data pipeline:                                     *)
(*   scripts/process_housing_data.py  (enrichment path, specification Spec)*)
(*   scripts/fetch_housing_data.py    (raw-fetch path, specification       *)
(*                                     SpecFetch)                          *)
(*   scripts/convert_to_csv.py        (CSV export), and single calls of    *)
(*                                     convert_to_tmk_format and           *)
(*                                     _extract_taxmapkey_fields           *)
(*                                     (specification SpecCall)            *)
(*                                                                         *)
(* Files are modelled as sequences of JSON tokens (whitespace dropped):    *)
(* the opening bracket, the closing bracket, the separator, an array       *)
(* element (the dict that json.dump serialised) and a "// ERROR:" line.    *)
(* A Python value that may be None is modelled as an option: <<>> is None  *)
(* and <<v>> is the value v.  A dict is a function whose DOMAIN is the set *)
(* of its keys.  A str on which the code works character by character is a *)
(* sequence of one-character strings.                                      *)
(***************************************************************************)
EXTENDS Integers, Sequences, FiniteSets, TLC

VARIABLES
    \* ---- process_housing_data.py -------------------------------------
    output_file,         \* the output file: NoFile, or FileOf(tokens)
    pc,                  \* position inside process_housing_data
    data,                \* input parcels not yet iterated (line 85)
    transfers,           \* transfers of the current parcel not yet iterated
    parcel_number,       \* line 86
    tmk,                 \* line 87
    existing_transfers,  \* keys of the dict built at lines 61-72
    new_transfers,       \* keys of the dict built at lines 82, 119
    first_item,          \* line 83
    file0,               \* history: output_file when the invocation began
    data0,               \* history: the parsed input of the invocation
    closes,              \* history: closing brackets written by the invocation
    outcome,             \* history: how the last invocation ended
    calls,               \* history: extract_conveyance_tax calls of the
                         \*          invocation, with what each returned
    \* ---- fetch_housing_data.py ---------------------------------------
    fetch_file,          \* the raw-fetch output file (tokens)
    fpc,                 \* position inside main / fetch_results
    call,                \* which fetch_results call of main is running
    range,               \* <<start_index, end_index, batch_size>> of the call
    i,                   \* loop index of fetch_results (line 101)
    mark,                \* history: length of fetch_file when the call began
    requests,            \* history: <<offset, limit>> of each request issued
    results,             \* history: what each request of the call ended in
    \* ---- the functions checked on their own ---------------------------
    fn,                  \* the function under check
    arg,                 \* its argument
    ret                  \* Pending, or how the call ended

procVars == <<output_file, pc, data, transfers, parcel_number, tmk,
              existing_transfers, new_transfers, first_item,
              file0, data0, closes, outcome, calls>>
fetchVars == <<fetch_file, fpc, call, range, i, mark, requests, results>>
pureVars == <<fn, arg, ret>>
vars == <<procVars, fetchVars, pureVars>>

(***************************************************************************)
(* Python values                                                           *)
(***************************************************************************)
None == <<>>
Some(v) == <<v>>

\* dict.get(key): None when the key is absent
Get(d, k) == IF k \in DOMAIN d THEN Some(d[k]) ELSE None
\* dict.get(key, default)
GetDefault(d, k, default) == IF k \in DOMAIN d THEN d[k] ELSE default
\* the empty dict {}
EmptyDict == <<>>
\* truthiness of an optional str: None and "" are falsy
Truthy(opt) == opt # None /\ opt[1] # ""

(***************************************************************************)
(* File tokens and json.load                                               *)
(***************************************************************************)
Open == [kind |-> "["]
Close == [kind |-> "]"]
Sep == [kind |-> ","]
Elem(v) == [kind |-> "elem", val |-> v]
ErrLine(msg) == [kind |-> "//", msg |-> msg]

NoFile == <<>>
FileOf(tokens) == <<tokens>>
Content(f) == f[1]

\* the array elements of a token sequence, in order
Elems(tokens) == SelectSeq(tokens, LAMBDA t : t.kind = "elem")
Values(tokens) == [n \in 1..Len(Elems(tokens)) |-> Elems(tokens)[n].val]
CountKind(tokens, k) == Len(SelectSeq(tokens, LAMBDA t : t.kind = k))

\* body of an array: empty, or elements separated by single separators
IsArrayBody(b) ==
    \/ b = <<>>
    \/ /\ Len(b) % 2 = 1
       /\ \A n \in 1..Len(b) :
            b[n].kind = (IF n % 2 = 1 THEN "elem" ELSE ",")

\* the text is one JSON array and nothing else
IsJsonArray(tokens) ==
    /\ Len(tokens) >= 2
    /\ tokens[1] = Open
    /\ tokens[Len(tokens)] = Close
    /\ IsArrayBody(SubSeq(tokens, 2, Len(tokens) - 1))

\* json.load: the parsed list, or a JSONDecodeError
JsonLoad(tokens) ==
    IF IsJsonArray(tokens)
    THEN [ok |-> TRUE, value |-> Values(tokens)]
    ELSE [ok |-> FALSE, value |-> <<>>]

(***************************************************************************)
(* convert_to_tmk_format                                                   *)
(***************************************************************************)
Digits == {"0", "1", "2", "3", "4", "5", "6", "7", "8", "9"}
\* characters for which str.isdigit() is True: the decimal digits and
\* digit-like characters such as superscript two, which int() rejects
IsDigitChars == Digits \cup {"^2"}

DigitVal(c) ==
    CASE c = "0" -> 0 [] c = "1" -> 1 [] c = "2" -> 2 [] c = "3" -> 3
      [] c = "4" -> 4 [] c = "5" -> 5 [] c = "6" -> 6 [] c = "7" -> 7
      [] c = "8" -> 8 [] c = "9" -> 9

\* str.isdigit() on a non-empty string
IsDigitStr(s) == Len(s) > 0 /\ \A n \in 1..Len(s) : s[n] \in IsDigitChars

\* int(s) succeeds on a string of decimal digits
IntParses(s) == Len(s) > 0 /\ \A n \in 1..Len(s) : s[n] \in Digits

RECURSIVE ParseInt(_)
ParseInt(s) ==
    IF s = <<>> THEN 0
    ELSE 10 * ParseInt(SubSeq(s, 1, Len(s) - 1)) + DigitVal(s[Len(s)])

\* str(n) for n >= 0
RECURSIVE IntToStr(_)
IntToStr(n) ==
    LET d == CASE n % 10 = 0 -> "0" [] n % 10 = 1 -> "1" [] n % 10 = 2 -> "2"
               [] n % 10 = 3 -> "3" [] n % 10 = 4 -> "4" [] n % 10 = 5 -> "5"
               [] n % 10 = 6 -> "6" [] n % 10 = 7 -> "7" [] n % 10 = 8 -> "8"
               [] n % 10 = 9 -> "9"
    IN  IF n < 10 THEN <<d>> ELSE IntToStr(n \div 10) \o <<d>>

Raised == [raised |-> TRUE, value |-> <<>>]
Returned(v) == [raised |-> FALSE, value |-> v]

\* parcel_number is an optional str; the result is the returned str or an
\* exception (len(None) is a TypeError, int() of a non-decimal digit a
\* ValueError)
convert_to_tmk_format(pn) ==
    IF pn = None THEN Raised
    ELSE LET s == pn[1] IN
         IF Len(s) # 13 \/ ~IsDigitStr(s) THEN Returned(s)
         ELSE IF ~IntParses(SubSeq(s, 2, 13)) THEN Raised
         ELSE LET zone   == s[1]
                  sec    == ParseInt(SubSeq(s, 2, 2))
                  plat   == ParseInt(SubSeq(s, 3, 3))
                  parcel == ParseInt(SubSeq(s, 4, 6))
                  lot    == ParseInt(SubSeq(s, 7, 9))
                  cpr    == ParseInt(SubSeq(s, 10, 13))
                  base   == <<zone>> \o <<"-">> \o IntToStr(sec) \o <<"-">>
                              \o IntToStr(plat) \o <<"-">> \o IntToStr(parcel)
                              \o <<"-">> \o IntToStr(lot)
              IN  IF cpr # 0
                  THEN Returned(base \o <<"-">> \o IntToStr(cpr))
                  ELSE Returned(base)

(***************************************************************************)
(* process_housing_data: inputs                                            *)
(***************************************************************************)
\* bound: the number of parcel entries of an input file
MaxParcels == 2

\* a 13-digit ParcelNumber (CPR 0000)
PN13 == <<"1", "2", "3", "0", "0", "4", "0", "5", "6", "0", "0", "0", "0">>

\* the value extract_conveyance_tax returns: the matched amount,
\* "Not found", or the text of a caught exception (lines 51-57)
TaxResults == {"1,234.50", "Not found", "Error accessing PDF: timeout"}

T1 == [Grantor |-> [Date |-> "2024-06-15T00:00:00-10:00", Price |-> 250000,
                    InstrumentType |-> "DEED",
                    BureauOfConveyancesLink |-> "L1"]]
T2 == [Grantor |-> [Date |-> "2023-12-31T23:59:59-10:00", Price |-> 150000,
                    InstrumentType |-> "DEED",
                    BureauOfConveyancesLink |-> "L2"]]
\* a transfer without a Grantor sub-record
T3 == [Grantee |-> "G"]
\* a transfer whose link is the empty string
T4 == [Grantor |-> [Date |-> "2024-06-15T00:00:00-10:00", Price |-> 300000,
                    InstrumentType |-> "DEED",
                    BureauOfConveyancesLink |-> ""]]

\* parcel entries of an input file
ParcelPool ==
    { [ParcelNumber |-> PN13, Transfers |-> <<T1>>],
      [ParcelNumber |-> PN13, Transfers |-> <<T2, T1>>],
      [ParcelNumber |-> PN13, Transfers |-> <<T3, T4>>],
      [ParcelNumber |-> PN13],
      [Transfers |-> <<T2>>] }

BoundedSeq(S, n) == UNION {[1..m -> S] : m \in 0..n}

\* contents of an input file that parses
Inputs == BoundedSeq(ParcelPool, MaxParcels)

(***************************************************************************)
(* process_housing_data: keys and records                                  *)
(***************************************************************************)
\* lines 66-71: the key of a record loaded from the output file
KeyOfItem(item) ==
    <<item.ParcelNumber, item.Date, item.Price, item.BureauOfConveyancesLink>>

\* lines 90-96: the key of an input transfer under parcel number pn
KeyOfTransfer(pn, transfer) ==
    LET grantor == GetDefault(transfer, "Grantor", EmptyDict)
    IN  <<pn, Get(grantor, "Date"), Get(grantor, "Price"),
          Get(grantor, "BureauOfConveyancesLink")>>

\* mutant of AlreadySeen: the check of line 101 is forgotten
AlreadySeenExistingOnly(transfer_key, existing, new) ==
    transfer_key \in existing

\* mutant of AlreadySeen: the check of lines 98-99 is forgotten
AlreadySeenNewOnly(transfer_key, existing, new) ==
    transfer_key \in new

\* mutant of AlreadySeen: a transfer below the price threshold of the fetch
\* path is skipped as well
AlreadySeenOrBelowThreshold(transfer_key, existing, new) ==
    \/ transfer_key \in existing
    \/ transfer_key \in new
    \/ transfer_key[3] = None
    \/ transfer_key[3][1] < 200000

\* lines 98-101: the transfer is skipped when its key is in either dict
AlreadySeen(transfer_key, existing, new) ==
    transfer_key \in existing \/ transfer_key \in new

\* lines 102-109: the values conveyance_tax can take for pdf_url
ConveyanceTaxValues(pdf_url) ==
    IF Truthy(pdf_url) THEN TaxResults ELSE {"ERROR"}

\* mutant of TransferData: a ConveyanceTax that is no amount is stored as
\* "ERROR"
TransferDataNormalized(pn, t, transfer, conveyance_tax) ==
    LET grantor == GetDefault(transfer, "Grantor", EmptyDict)
    IN  [ParcelNumber |-> pn,
         TMK |-> t,
         Date |-> Get(grantor, "Date"),
         Price |-> Get(grantor, "Price"),
         BureauOfConveyancesLink |-> Get(grantor, "BureauOfConveyancesLink"),
         ConveyanceTax |-> IF conveyance_tax = "1,234.50"
                           THEN conveyance_tax ELSE "ERROR"]

\* lines 111-118
TransferData(pn, t, transfer, conveyance_tax) ==
    LET grantor == GetDefault(transfer, "Grantor", EmptyDict)
    IN  [ParcelNumber |-> pn,
         TMK |-> t,
         Date |-> Get(grantor, "Date"),
         Price |-> Get(grantor, "Price"),
         BureauOfConveyancesLink |-> Get(grantor, "BureauOfConveyancesLink"),
         ConveyanceTax |-> conveyance_tax]

\* lines 121-125: open(output_file, 'a') and the writes of one record
AppendRecord(f, first, rec) ==
    FileOf(Content(f) \o (IF first THEN <<>> ELSE <<Sep>>) \o <<Elem(rec)>>)

\* lines 127-128 and 139-140: open(output_file, 'a'); f.write('\n]')
AppendClose(f) ==
    FileOf((IF f = NoFile THEN <<>> ELSE Content(f)) \o <<Close>>)

(***************************************************************************)
(* process_housing_data: the invocation, step by step                      *)
(***************************************************************************)
InitProc ==
    /\ output_file = NoFile
    /\ pc = "idle"
    /\ data = <<>>
    /\ transfers = <<>>
    /\ parcel_number = None
    /\ tmk = <<>>
    /\ existing_transfers = {}
    /\ new_transfers = {}
    /\ first_item = TRUE
    /\ file0 = NoFile
    /\ data0 = <<>>
    /\ closes = 0
    /\ outcome = "none"
    /\ calls = <<>>

\* lines 61-73: the output file exists and parses
LoadExisting ==
    /\ UNCHANGED <<fetchVars, pureVars>>
    /\ pc = "idle"
    /\ output_file # NoFile
    /\ JsonLoad(Content(output_file)).ok
    /\ LET existing_data == JsonLoad(Content(output_file)).value
       IN  existing_transfers' =
               {KeyOfItem(existing_data[n]) : n \in 1..Len(existing_data)}
    /\ pc' = "read"
    /\ file0' = output_file
    /\ closes' = 0
    /\ outcome' = "running"
    /\ data0' = <<>>
    /\ calls' = <<>>
    /\ UNCHANGED <<output_file, data, transfers, parcel_number, tmk,
                   new_transfers, first_item>>

\* mutant of StartNewFile: the file is opened for appending, so what it
\* held stays in front of the new opening bracket
StartNewFileAppending ==
    /\ UNCHANGED <<fetchVars, pureVars>>
    /\ pc = "idle"
    /\ \/ output_file = NoFile
       \/ /\ output_file # NoFile
          /\ ~JsonLoad(Content(output_file)).ok
    /\ existing_transfers' = {}
    /\ output_file' =
          FileOf((IF output_file = NoFile THEN <<>> ELSE Content(output_file))
                    \o <<Open>>)
    /\ pc' = "read"
    /\ file0' = output_file
    /\ closes' = 0
    /\ outcome' = "running"
    /\ data0' = <<>>
    /\ calls' = <<>>
    /\ UNCHANGED <<data, transfers, parcel_number, tmk, new_transfers,
                   first_item>>

\* lines 74-77: FileNotFoundError or JSONDecodeError on the output file
StartNewFile ==
    /\ UNCHANGED <<fetchVars, pureVars>>
    /\ pc = "idle"
    /\ \/ output_file = NoFile
       \/ /\ output_file # NoFile
          /\ ~JsonLoad(Content(output_file)).ok
    /\ existing_transfers' = {}
    /\ output_file' = FileOf(<<Open>>)
    /\ pc' = "read"
    /\ file0' = output_file
    /\ closes' = 0
    /\ outcome' = "running"
    /\ data0' = <<>>
    /\ calls' = <<>>
    /\ UNCHANGED <<data, transfers, parcel_number, tmk, new_transfers,
                   first_item>>

\* lines 79-83: the input file parses
ReadInput ==
    /\ UNCHANGED <<fetchVars, pureVars>>
    /\ pc = "read"
    /\ \E d \in Inputs :
          /\ data' = d
          /\ data0' = d
    /\ new_transfers' = {}
    /\ first_item' = (Cardinality(existing_transfers) = 0)
    /\ transfers' = <<>>
    /\ pc' = "loop"
    /\ UNCHANGED <<output_file, parcel_number, tmk, existing_transfers,
                   file0, closes, outcome, calls>>

\* lines 79-80 raise JSONDecodeError: handler of lines 134-135
InputNotJson ==
    /\ UNCHANGED <<fetchVars, pureVars>>
    /\ pc = "read"
    /\ pc' = "idle"
    /\ outcome' = "input_error"
    /\ UNCHANGED <<output_file, data, transfers, parcel_number, tmk,
                   existing_transfers, new_transfers, first_item,
                   file0, data0, closes, calls>>

\* lines 136-142: the handler of every other exception
HandleException ==
    /\ output_file' = AppendClose(output_file)
    /\ closes' = closes + 1
    /\ pc' = "idle"
    /\ outcome' = "exception"

\* line 79 raises FileNotFoundError (the input file cannot be opened)
InputMissing ==
    /\ UNCHANGED <<fetchVars, pureVars>>
    /\ pc = "read"
    /\ HandleException
    /\ UNCHANGED <<data, transfers, parcel_number, tmk, existing_transfers,
                   new_transfers, first_item, file0, data0, calls>>

\* lines 85-87: the next parcel; convert_to_tmk_format returns
NextParcel ==
    /\ UNCHANGED <<fetchVars, pureVars>>
    /\ pc = "loop"
    /\ transfers = <<>>
    /\ data # <<>>
    /\ LET taxmapkey == Head(data)
           pn == Get(taxmapkey, "ParcelNumber")
       IN  /\ ~convert_to_tmk_format(pn).raised
           /\ parcel_number' = pn
           /\ tmk' = convert_to_tmk_format(pn).value
           /\ transfers' = GetDefault(taxmapkey, "Transfers", <<>>)
    /\ data' = Tail(data)
    /\ UNCHANGED <<output_file, pc, existing_transfers, new_transfers,
                   first_item, file0, data0, closes, outcome, calls>>

\* lines 85-87: convert_to_tmk_format raises; handler of lines 136-142
NextParcelRaises ==
    /\ UNCHANGED <<fetchVars, pureVars>>
    /\ pc = "loop"
    /\ transfers = <<>>
    /\ data # <<>>
    /\ convert_to_tmk_format(Get(Head(data), "ParcelNumber")).raised
    /\ parcel_number' = Get(Head(data), "ParcelNumber")
    /\ HandleException
    /\ UNCHANGED <<data, transfers, tmk, existing_transfers, new_transfers,
                   first_item, file0, data0, calls>>

\* lines 89-125: one iteration of the inner loop
ProcessTransfer ==
    /\ UNCHANGED <<fetchVars, pureVars>>
    /\ pc = "loop"
    /\ transfers # <<>>
    /\ LET transfer == Head(transfers)
           transfer_key == KeyOfTransfer(parcel_number, transfer)
           pdf_url == transfer_key[4]
       IN  IF AlreadySeen(transfer_key, existing_transfers, new_transfers)
           THEN UNCHANGED <<output_file, new_transfers, first_item, calls>>
           ELSE \E conveyance_tax \in ConveyanceTaxValues(pdf_url) :
                   /\ calls' = IF Truthy(pdf_url)
                               THEN Append(calls,
                                      [key |-> transfer_key,
                                       pdf_url |-> pdf_url[1],
                                       returned |-> conveyance_tax])
                               ELSE calls
                   /\ new_transfers' = new_transfers \cup {transfer_key}
                   /\ output_file' =
                        AppendRecord(output_file, first_item,
                            TransferData(parcel_number, tmk, transfer,
                                         conveyance_tax))
                   /\ first_item' = FALSE
    /\ transfers' = Tail(transfers)
    /\ UNCHANGED <<pc, data, parcel_number, tmk, existing_transfers,
                   file0, data0, closes, outcome>>

\* lines 127-132: the loop is over
Finalize ==
    /\ UNCHANGED <<fetchVars, pureVars>>
    /\ pc = "loop"
    /\ transfers = <<>>
    /\ data = <<>>
    /\ output_file' = AppendClose(output_file)
    /\ closes' = closes + 1
    /\ pc' = "idle"
    /\ outcome' = "ok"
    /\ UNCHANGED <<data, transfers, parcel_number, tmk, existing_transfers,
                   new_transfers, first_item, file0, data0, calls>>

NextProc ==
    \/ LoadExisting
    \/ StartNewFile
    \/ ReadInput
    \/ InputNotJson
    \/ InputMissing
    \/ NextParcel
    \/ NextParcelRaises
    \/ ProcessTransfer
    \/ Finalize


(***************************************************************************)
(* fetch_housing_data.py: extract_taxmapkey_fields                        *)
(***************************************************************************)
\* datetime.strptime(date, '%Y-%m-%dT%H:%M:%S%z'): the parsed year, or a
\* ValueError for a string of another shape
strptime(date) ==
    CASE date = "2024-06-15T00:00:00-10:00" -> [ok |-> TRUE, year |-> 2024]
      [] date = "2023-12-31T23:59:59-10:00" -> [ok |-> TRUE, year |-> 2023]
      [] OTHER -> [ok |-> FALSE, year |-> 0]

RequiredFields == {"Date", "Price", "InstrumentType", "BureauOfConveyancesLink"}

\* mutant of Qualifies: the price threshold is exclusive
QualifiesAbove(transfer) ==
    LET grantor == transfer.Grantor
    IN  /\ RequiredFields \subseteq DOMAIN grantor
        /\ strptime(grantor.Date).ok
        /\ strptime(grantor.Date).year = 2024
        /\ grantor.Price > 200000
        /\ grantor.InstrumentType = "DEED"
        /\ grantor.BureauOfConveyancesLink # ""

\* lines 69-80: the transfer (which has a Grantor) is kept
Qualifies(transfer) ==
    LET grantor == transfer.Grantor
    IN  /\ RequiredFields \subseteq DOMAIN grantor
        /\ strptime(grantor.Date).ok
        /\ strptime(grantor.Date).year = 2024
        /\ grantor.Price >= 200000
        /\ grantor.InstrumentType = "DEED"
        /\ grantor.BureauOfConveyancesLink # ""

\* lines 57-84: the projection of a TaxMapKey object, or the KeyError that
\* transfer['Grantor'] raises for a transfer without a Grantor
extract_taxmapkey_fields(taxmapkey) ==
    LET base == [ParcelNumber |-> Get(taxmapkey, "ParcelNumber"),
                 LastSaleDate |-> Get(taxmapkey, "LastSaleDate"),
                 LastSalePrice |-> Get(taxmapkey, "LastSalePrice"),
                 LastSaleInstrument |-> Get(taxmapkey, "LastSaleInstrument")]
    IN  IF "Transfers" \notin DOMAIN taxmapkey THEN Returned(base)
        ELSE IF \E n \in 1..Len(taxmapkey.Transfers) :
                    "Grantor" \notin DOMAIN taxmapkey.Transfers[n]
             THEN Raised
             ELSE Returned([ParcelNumber |-> base.ParcelNumber,
                            LastSaleDate |-> base.LastSaleDate,
                            LastSalePrice |-> base.LastSalePrice,
                            LastSaleInstrument |-> base.LastSaleInstrument,
                            Transfers |->
                                SelectSeq(taxmapkey.Transfers, Qualifies)])

(***************************************************************************)
(* fetch_housing_data.py: the remote API's answers                         *)
(***************************************************************************)
TaxMapKeyA ==
    [ParcelNumber |-> PN13, LastSaleDate |-> "2024-06-15T00:00:00-10:00",
     LastSalePrice |-> 250000, LastSaleInstrument |-> "DEED",
     Transfers |-> <<T1, T2>>]
\* a TaxMapKey object without Transfers
TaxMapKeyB == [ParcelNumber |-> PN13, LastSalePrice |-> 150000]
\* a TaxMapKey object one of whose transfers lacks its Grantor sub-record
TaxMapKeyNoGrantor == [ParcelNumber |-> PN13, Transfers |-> <<T1, T3>>]

\* bodies of the responses whose status is a success
ResponsePool ==
    { [message |-> "no data"],
      [data |-> <<>>],
      [data |-> <<[TaxMapKey |-> TaxMapKeyA]>>],
      [data |-> <<[TaxMapKey |-> TaxMapKeyB], [Score |-> 1],
                  [TaxMapKey |-> TaxMapKeyA]>>],
      [data |-> <<[TaxMapKey |-> TaxMapKeyA],
                  [TaxMapKey |-> TaxMapKeyNoGrantor]>>] }

\* lines 122-127: the items of the response that carry a TaxMapKey
TaxMapKeysOf(response_data) ==
    IF "data" \notin DOMAIN response_data THEN <<>>
    ELSE LET tagged == SelectSeq(response_data.data,
                               LAMBDA item : "TaxMapKey" \in DOMAIN item)
         IN  [n \in 1..Len(tagged) |-> tagged[n].TaxMapKey]

\* lines 122-127: batch_results, or the exception the extraction raises
BatchResults(response_data) ==
    LET keys == TaxMapKeysOf(response_data)
    IN  IF \E n \in 1..Len(keys) : extract_taxmapkey_fields(keys[n]).raised
        THEN Raised
        ELSE Returned([n \in 1..Len(keys) |->
                          extract_taxmapkey_fields(keys[n]).value])

(***************************************************************************)
(* fetch_housing_data.py: fetch_results and main                           *)
(***************************************************************************)
\* bounds: the arguments of fetch_results
MaxIndex == 2
MaxBatchSize == 2

\* the range and batch size of the spec's example
ExampleRange == <<0, 2500, 1000>>

\* <<start_index, end_index, batch_size>> of a call
Ranges ==
    {r \in (0..MaxIndex) \X (0..MaxIndex) \X (1..MaxBatchSize) : r[1] <= r[2]}
    \cup {ExampleRange}

\* mutant of NumRequests: the division rounds down
NumRequestsFloor(r) == (r[2] - r[1]) \div r[3]

\* lines 98-99
NumRequests(r) ==
    LET total_results == r[2] - r[1]
        batch_size == r[3]
    IN  (total_results + batch_size - 1) \div batch_size

\* line 102
Offset(r, n) == r[1] + (n * r[3])

\* line 104
Min(a, b) == IF a <= b THEN a ELSE b
Limit(r, n) == Min(r[3], r[2] - Offset(r, n))

\* lines 30-44: APIClient._write_to_file
write_to_file(f, message, is_last) ==
    f \o <<Elem(message)>> \o (IF is_last THEN <<>> ELSE <<Sep>>)

\* lines 48-52: APIClient._write_error
write_error(f, error_message) == f \o <<ErrLine(error_message)>>

\* lines 130-132: the writes of one batch
RECURSIVE WriteBatch(_, _, _, _)
WriteBatch(f, batch_results, j, last_batch) ==
    IF j > Len(batch_results) THEN f
    ELSE WriteBatch(
            write_to_file(f, batch_results[j],
                           last_batch /\ j = Len(batch_results)),
            batch_results, j + 1, last_batch)

\* lines 25-28: the state main is in after APIClient(...) returned
InitFetch ==
    /\ fetch_file = <<Open>>
    /\ fpc = "main"
    /\ call = 0
    /\ range = <<0, 0, 1>>
    /\ i = 0
    /\ mark = 1
    /\ requests = <<>>
    /\ results = <<>>

\* main lines 176-192 and fetch_results lines 97-99: the next call begins
CallFetchResults ==
    /\ UNCHANGED <<procVars, pureVars>>
    /\ fpc = "main"
    /\ call < 2
    /\ \E r \in Ranges : range' = r
    /\ call' = call + 1
    /\ i' = 0
    /\ mark' = Len(fetch_file)
    /\ requests' = <<>>
    /\ results' = <<>>
    /\ fpc' = "loop"
    /\ UNCHANGED fetch_file

\* mutant of HandleRequestException: the handler annotates and re-raises,
\* which ends the run in main's handler
HandleRequestExceptionRaises(has_response) ==
    /\ fetch_file' =
          write_error(
              write_error(fetch_file,
                  [what |-> "request", offset |-> Offset(range, i)]),
              [what |-> "fatal"]) \o <<Close>>
    /\ i' = i
    /\ fpc' = "done"

\* mutant of HandleRequestException: the handler drops what the call wrote
\* before the failed batch
HandleRequestExceptionTruncates(has_response) ==
    /\ fetch_file' =
          write_error(SubSeq(fetch_file, 1, mark),
                      [what |-> "request", offset |-> Offset(range, i)])
    /\ i' = i + 1
    /\ fpc' = "loop"

\* mutant of HandleRequestException: the failed batch is requested again
HandleRequestExceptionRetries(has_response) ==
    /\ fetch_file' =
          write_error(fetch_file,
                      [what |-> "request", offset |-> Offset(range, i)])
    /\ i' = i
    /\ fpc' = "loop"

\* lines 136-142: what the handler of RequestException does
HandleRequestException(has_response) ==
    /\ fetch_file' =
          LET f == write_error(fetch_file,
                      [what |-> "request", offset |-> Offset(range, i)])
          IN  IF has_response
              THEN write_error(f, [what |-> "response"])
              ELSE f
    /\ i' = i + 1
    /\ fpc' = "loop"

\* lines 102-119 raise RequestException; lines 136-142
RequestFails ==
    /\ UNCHANGED <<procVars, pureVars>>
    /\ fpc = "loop"
    /\ i < NumRequests(range)
    /\ \E has_response \in BOOLEAN : HandleRequestException(has_response)
    /\ requests' = Append(requests, <<Offset(range, i), Limit(range, i)>>)
    /\ results' = Append(results, [kind |-> "failed"])
    /\ UNCHANGED <<call, range, mark>>

\* lines 102-134: the request succeeds and the batch is written
RequestSucceeds ==
    /\ UNCHANGED <<procVars, pureVars>>
    /\ fpc = "loop"
    /\ i < NumRequests(range)
    /\ \E response_data \in ResponsePool :
          /\ ~BatchResults(response_data).raised
          /\ fetch_file' =
                WriteBatch(fetch_file, BatchResults(response_data).value, 1,
                           i = NumRequests(range) - 1)
          /\ results' = Append(results,
                 [kind |-> "ok", response |-> response_data])
    /\ requests' = Append(requests, <<Offset(range, i), Limit(range, i)>>)
    /\ i' = i + 1
    /\ UNCHANGED <<fpc, call, range, mark>>

\* lines 124-127 raise an exception that is no RequestException: it leaves
\* fetch_results and is caught by main, lines 194-200
RequestFatal ==
    /\ UNCHANGED <<procVars, pureVars>>
    /\ fpc = "loop"
    /\ i < NumRequests(range)
    /\ \E response_data \in ResponsePool :
          /\ BatchResults(response_data).raised
          /\ results' = Append(results,
                 [kind |-> "fatal", response |-> response_data])
    /\ requests' = Append(requests, <<Offset(range, i), Limit(range, i)>>)
    /\ fetch_file' =
          write_error(fetch_file, [what |-> "fatal"]) \o <<Close>>
    /\ fpc' = "done"
    /\ UNCHANGED <<call, range, i, mark>>

\* lines 144-147: the loop is over; fetch_results returns to main
CloseArray ==
    /\ UNCHANGED <<procVars, pureVars>>
    /\ fpc = "loop"
    /\ i = NumRequests(range)
    /\ fetch_file' = fetch_file \o <<Close>>
    /\ fpc' = IF call = 2 THEN "done" ELSE "main"
    /\ UNCHANGED <<call, range, i, mark, requests, results>>

NextFetch ==
    \/ CallFetchResults
    \/ RequestFails
    \/ RequestSucceeds
    \/ RequestFatal
    \/ CloseArray

(***************************************************************************)
(* A single call of one of the functions (specification SpecCall)          *)
(***************************************************************************)
\* the call has not returned yet
Pending == [pending |-> TRUE]

\* a dict with the key k when opt is a value, the empty dict when it is None
Field(k, opt) == IF opt = None THEN EmptyDict ELSE (k :> opt[1])

\* ---- arguments of _extract_taxmapkey_fields ----------------------------
MaxTransfers == 2

\* the Grantor sub-records: each of the four fields absent or one of a few
\* values ("2024-06-15" is a date that the format of line 72 rejects)
GrantorPool ==
    { Field("Date", d) @@ Field("Price", p) @@ Field("InstrumentType", t)
        @@ Field("BureauOfConveyancesLink", l) :
      d \in {None, Some("2024-06-15T00:00:00-10:00"),
             Some("2023-12-31T23:59:59-10:00"), Some("2024-06-15")},
      p \in {None, Some(199999), Some(200000)},
      t \in {None, Some("DEED"), Some("MORTGAGE")},
      l \in {None, Some(""), Some("L1")} }

\* a transfer whose Date does not parse
TBadDate == [Grantor |-> [Date |-> "2024-06-15", Price |-> 250000,
                          InstrumentType |-> "DEED",
                          BureauOfConveyancesLink |-> "L4"]]

\* the Transfers of the TaxMapKey objects: any Grantor alone, before T1 and
\* after TBadDate, and the short sequences over three transfers
TransfersPool ==
    UNION { { <<[Grantor |-> g]>>, <<[Grantor |-> g], T1>>,
              <<TBadDate, [Grantor |-> g]>> } : g \in GrantorPool }
        \cup BoundedSeq({T1, T2, TBadDate}, MaxTransfers)

ExtractArgs ==
    { [ParcelNumber |-> PN13, Transfers |-> ts] : ts \in TransfersPool }
        \cup {TaxMapKeyB, TaxMapKeyNoGrantor}

\* ---- arguments of convert_to_tmk_format ---------------------------------
MaxTmkLen == 3

\* strings of 13 characters, field by field: decimal digits, the superscript
\* two (a digit for str.isdigit, not for int) and a letter
ThirteenChars ==
    { zone \o <<"2", "3">> \o parcel \o lot \o cpr :
      zone \in {<<"1">>, <<"^2">>},
      parcel \in {<<"0", "0", "4">>, <<"1", "2", "0">>},
      lot \in {<<"0", "5", "6">>, <<"0", "0", "0">>},
      cpr \in {<<"0", "0", "0", "0">>, <<"0", "0", "0", "7">>,
               <<"0", "1", "2", "3">>, <<"0", "0", "^2", "0">>,
               <<"0", "0", "A", "0">>} }

\* the str arguments: short strings, strings of 13 characters, one of 14
TmkArgs ==
    { Some(s) : s \in BoundedSeq({"0", "7", "A"}, MaxTmkLen)
                        \cup ThirteenChars \cup {PN13 \o <<"0">>} }

\* ---- convert_to_csv.py ---------------------------------------------------
\* A JSON value of an item is [str |-> characters] for a string and
\* [num |-> n] for a number.
Str(chars) == [str |-> chars]
IsStr(v) == DOMAIN v = {"str"}

ERROR ==
    <<"E", "R", "R", "O", "R">>
NotFound ==
    <<"N", "o", "t", " ", "f", "o", "u", "n", "d">>
ErrorAccessingPdf ==
    <<"E", "r", "r", "o", "r", " ", "a", "c", "c", "e", "s", "s", "i",
      "n", "g", " ", "P", "D", "F", ":", " ", "t", "i", "m", "e", "o",
      "u", "t">>
Amount ==
    <<"1", ",", "2", "3", "4", ".", "5", "0">>

\* conveyance_tax.replace(',', '')
IsNotComma(c) == c # ","
RemoveCommas(chars) == SelectSeq(chars, IsNotComma)

\* float(chars) succeeds.  Of the literals float() accepts, the ones that
\* the characters of the model can spell: a decimal numeral with at most
\* one point and at least one digit, and "nan".
IsDecimalNumeral(chars) ==
    /\ \A n \in 1..Len(chars) : chars[n] \in Digits \cup {"."}
    /\ \E n \in 1..Len(chars) : chars[n] \in Digits
    /\ \A m, n \in 1..Len(chars) : (chars[m] = "." /\ chars[n] = ".") => m = n
FloatParses(chars) == IsDecimalNumeral(chars) \/ chars = <<"n", "a", "n">>

\* lines 37-46: the ConveyanceTax cell of an item
CleanTax(item) ==
    LET conveyance_tax == GetDefault(item, "ConveyanceTax", Str(<<>>))
    IN  IF conveyance_tax \notin {Str(ERROR), Str(NotFound)}
        THEN IF ~IsStr(conveyance_tax) THEN Str(ERROR)      \* AttributeError
             ELSE IF FloatParses(RemoveCommas(conveyance_tax.str))
                  THEN Str(RemoveCommas(conveyance_tax.str))
                  ELSE Str(ERROR)                           \* ValueError
        ELSE Str(ERROR)

\* lines 32 and 48-53: the header row and the row of an item
HeaderRow == <<"ParcelNumber", "Date", "Price", "ConveyanceTax">>
RowOf(item) ==
    <<GetDefault(item, "ParcelNumber", Str(<<>>)),
      GetDefault(item, "Date", Str(<<>>)),
      GetDefault(item, "Price", Str(<<>>)),
      CleanTax(item)>>

\* lines 28-53: the rows written to the CSV file for the parsed input data
RECURSIVE DataRows(_)
DataRows(items) ==
    IF items = <<>> THEN <<>>
    ELSE <<RowOf(Head(items))>> \o DataRows(Tail(items))
convert_to_csv(items) == Returned(<<HeaderRow>> \o DataRows(items))

MaxTaxLen == 3
MaxRows == 2

\* the ConveyanceTax values of the items: the strings the extractor returns
\* and "ERROR", every short string over five characters, and a number
TaxValues ==
    { Str(chars) :
        chars \in BoundedSeq({"1", ",", ".", "n", "a"}, MaxTaxLen)
                    \cup {ERROR, NotFound, ErrorAccessingPdf, Amount} }
        \cup { [num |-> 1234] }

ItemOf(v) ==
    [ParcelNumber |-> Str(PN13), Date |-> Str(<<"D">>),
     Price |-> [num |-> 250000], ConveyanceTax |-> v]
\* an item without ConveyanceTax, and one with nothing but it
ItemBare == [ParcelNumber |-> Str(PN13), Date |-> Str(<<"D">>)]
ItemTaxOnly == [ConveyanceTax |-> Str(Amount)]

\* the parsed input: one item with any ConveyanceTax, or a few rows
CsvArgs ==
    { <<ItemOf(v)>> : v \in TaxValues }
        \cup BoundedSeq({ItemOf(Str(Amount)), ItemOf(Str(NotFound)),
                         ItemBare, ItemTaxOnly}, MaxRows)

InitCall ==
    /\ \/ fn = "_extract_taxmapkey_fields" /\ arg \in ExtractArgs
       \/ fn = "convert_to_tmk_format" /\ arg \in TmkArgs
       \/ fn = "convert_to_csv" /\ arg \in CsvArgs
    /\ ret = Pending

\* fetch_housing_data.py lines 54-84
CallExtractTaxmapkeyFields ==
    /\ UNCHANGED <<procVars, fetchVars>>
    /\ fn = "_extract_taxmapkey_fields"
    /\ ret = Pending
    /\ ret' = extract_taxmapkey_fields(arg)
    /\ UNCHANGED <<fn, arg>>

\* process_housing_data.py lines 14-29
CallConvertToTmkFormat ==
    /\ UNCHANGED <<procVars, fetchVars>>
    /\ fn = "convert_to_tmk_format"
    /\ ret = Pending
    /\ ret' = convert_to_tmk_format(arg)
    /\ UNCHANGED <<fn, arg>>

\* convert_to_csv.py lines 14-61, the input file parsing to arg
CallConvertToCsv ==
    /\ UNCHANGED <<procVars, fetchVars>>
    /\ fn = "convert_to_csv"
    /\ ret = Pending
    /\ ret' = convert_to_csv(arg)
    /\ UNCHANGED <<fn, arg>>

NextCall ==
    \/ CallExtractTaxmapkeyFields
    \/ CallConvertToTmkFormat
    \/ CallConvertToCsv

(***************************************************************************)
(* Specifications                                                          *)
(***************************************************************************)
\* no function is called on its own
InitNoCall ==
    /\ fn = "none"
    /\ arg = <<>>
    /\ ret = <<>>

Init == InitProc /\ InitFetch /\ InitNoCall

\* the enrichment path: invocations of process_housing_data, one after another
Next == NextProc
Spec == Init /\ [][Next]_vars

\* the raw-fetch path: one run of main
SpecFetch == Init /\ [][NextFetch]_vars

\* one call of a function, on any of its arguments
InitOneCall == InitProc /\ InitFetch /\ InitCall
SpecCall == InitOneCall /\ [][NextCall]_vars

(***************************************************************************)
(* Vocabulary of the properties                                            *)
(***************************************************************************)
\* the records of a file, in file order (brackets, separators and error
\* lines dropped)
Records(f) == IF f = NoFile THEN <<>> ELSE Values(Content(f))

\* RecordKey = (ParcelNumber, Date, Price, DocumentLink)
RecordKey(r) == <<r.ParcelNumber, r.Date, r.Price, r.BureauOfConveyancesLink>>
RecordKeys(f) == {RecordKey(Records(f)[n]) : n \in 1..Len(Records(f))}

\* the RecordKeys of the transfers of an input
InputKeys(d) ==
    UNION { { KeyOfTransfer(Get(d[n], "ParcelNumber"),
                            GetDefault(d[n], "Transfers", <<>>)[k]) :
                k \in 1..Len(GetDefault(d[n], "Transfers", <<>>)) } :
            n \in 1..Len(d) }

IsPrefix(a, b) == Len(a) <= Len(b) /\ SubSeq(b, 1, Len(a)) = a

\* an invocation of process_housing_data has returned
Returned_process == pc = "idle" /\ outcome # "none"

(***************************************************************************)
(* Enrichment path (specification Spec)                                    *)
(***************************************************************************)
\* C1: for every RecordKey k the output file holds at most one record with
\* key k, after each run (and in fact in every state) of any sequence of
\* runs against the same output file.
Thm_C1_AtMostOnePerKey ==
    LET recs == Records(output_file)
    IN  \A m, n \in 1..Len(recs) :
            RecordKey(recs[m]) = RecordKey(recs[n]) => m = n

\* C1 witness: a run that found records in the file, met one of them again
\* in its input and skipped it, and appended another transfer.
Wit_C1_ResumedRun ==
    /\ pc = "idle"
    /\ outcome = "ok"
    /\ InputKeys(data0) \cap existing_transfers # {}
    /\ new_transfers # {}
    /\ Len(Records(output_file)) >= 2

\* C2: after every invocation that completed, the output file is one array:
\* one leading bracket, the elements separated, one trailing bracket.
Claim_C2_SingleArray ==
    (pc = "idle" /\ outcome = "ok") =>
        /\ IsJsonArray(Content(output_file))
        /\ CountKind(Content(output_file), "[") = 1
        /\ CountKind(Content(output_file), "]") = 1

\* C3: a run that completes against a file holding N records, with an input
\* that contains those N transfers and M new ones, leaves N+M records, the
\* first N of them being the original N, unchanged.
Claim_C3_RerunAppends ==
    (/\ pc = "idle"
     /\ outcome = "ok"
     /\ RecordKeys(file0) \subseteq InputKeys(data0)) =>
        /\ Len(Records(output_file)) =
              Len(Records(file0))
              + Cardinality(InputKeys(data0) \ RecordKeys(file0))
        /\ IsPrefix(Records(file0), Records(output_file))

\* C4: once the file exists it is only appended to: no step of any later
\* run removes or rewrites a record that is in the file.
Claim_C4_AppendOnly ==
    [][output_file # NoFile =>
          IsPrefix(Records(output_file), Records(output_file'))]_vars

\* C5: every invocation writes the closing bracket exactly once, on normal
\* completion and on every caught failure, so the file ends with it when
\* the invocation returns.
Claim_C5_ClosedOnce ==
    Returned_process =>
        /\ closes = 1
        /\ Content(output_file)[Len(Content(output_file))] = Close

\* C10, enrichment half: a parcel without ParcelNumber does not abort the
\* run, so every transfer of the input is in the file when the run returns.
Claim_C10_EnrichmentContinues ==
    (pc = "idle" /\ outcome \in {"ok", "exception"}) =>
        InputKeys(data0) \subseteq RecordKeys(output_file)

(***************************************************************************)
(* Raw-fetch path (specification SpecFetch)                                *)
(***************************************************************************)
\* the current call of fetch_results has returned to main
Returned_fetch ==
    /\ call >= 1
    /\ fpc \in {"main", "done"}
    /\ \A n \in 1..Len(results) : results[n].kind # "fatal"

\* what the current call has appended to the file
WrittenByCall == SubSeq(fetch_file, mark + 1, Len(fetch_file))

\* the records of the successful batches, in batch order
RECURSIVE ExpectedRecords(_)
ExpectedRecords(res) ==
    IF res = <<>> THEN <<>>
    ELSE ExpectedRecords(SubSeq(res, 1, Len(res) - 1))
         \o (IF res[Len(res)].kind = "ok"
             THEN BatchResults(res[Len(res)].response).value
             ELSE <<>>)

\* the smallest k with k * b >= a
CeilDiv(a, b) == CHOOSE k \in 0..a : k * b >= a /\ (k = 0 \/ (k - 1) * b < a)

\* the index window a request asks for
Window(req) == req[1]..(req[1] + req[2] - 1)

\* C6: a failed request leaves an error annotation naming its offset and
\* does not abort the call: the next batch of the range is requested, and
\* the records of every successful batch are written.
Thm_C6_BatchFailureIsolated ==
    \A n \in 1..Len(results) :
        results[n].kind = "failed" =>
            /\ \E k \in 1..Len(WrittenByCall) :
                  WrittenByCall[k] =
                      ErrLine([what |-> "request", offset |-> requests[n][1]])
            /\ n < NumRequests(range) =>
                  (Len(requests) > n \/ (fpc = "loop" /\ i = n))
            /\ \A m \in (n + 1)..Len(results) :
                  results[m].kind = "ok" =>
                      IsPrefix(ExpectedRecords(SubSeq(results, 1, m)),
                               Values(WrittenByCall))

\* C6 witness: the request at offset 1000 failed, the one at offset 2000
\* succeeded and its records are in the file.
Wit_C6_FailedThenWritten ==
    /\ Returned_fetch
    /\ Len(results) = 3
    /\ requests[2][1] = 1000 /\ results[2].kind = "failed"
    /\ requests[3][1] = 2000 /\ results[3].kind = "ok"
    /\ BatchResults(results[3].response).value # <<>>
    /\ Values(WrittenByCall) = BatchResults(results[3].response).value

\* C7: request n (from 0) has offset start + n * batchSize and limit
\* min(batchSize, end - offset); a call that returns has issued
\* ceil((end - start) / batchSize) requests whose windows are disjoint,
\* cover [start, end) and never extend past end.
Thm_C7_BatchWindows ==
    LET start == range[1]
        end == range[2]
        batchSize == range[3]
    IN  /\ \A n \in 1..Len(requests) :
              /\ requests[n][1] = start + (n - 1) * batchSize
              /\ requests[n][2] = Min(batchSize, end - requests[n][1])
              /\ start <= requests[n][1]
              /\ requests[n][2] >= 1
              /\ requests[n][1] + requests[n][2] <= end
        /\ \A m, n \in 1..Len(requests) :
              m < n => requests[m][1] + requests[m][2] <= requests[n][1]
        /\ Returned_fetch =>
              /\ Len(requests) = CeilDiv(end - start, batchSize)
              /\ UNION {Window(requests[n]) : n \in 1..Len(requests)}
                    = start..(end - 1)

\* C7 witness: the call over [0, 2500) with batch size 1000 has returned
\* after the requests (0,1000), (1000,1000), (2000,500).
Wit_C7_Example ==
    /\ Returned_fetch
    /\ range = ExampleRange
    /\ requests = <<<<0, 1000>>, <<1000, 1000>>, <<2000, 500>>>>

\* C8: when fetch_results returns, the file without its error lines is an
\* array in which every element but the last is followed by a separator.
Claim_C8_FetchFraming ==
    (Returned_fetch /\ call = 1) =>
        IsJsonArray(SelectSeq(fetch_file, LAMBDA t : t.kind # "//"))

\* C9: after a complete run of main the file has one opening bracket and
\* one closing bracket, which is the last thing written.  (Stated for the
\* runs in which each call that began has issued a request, as the calls of
\* main do: a second call that found more than the brackets in the file
\* follows a first call that issued one.)
Claim_C9_OneClosingBracket ==
    (fpc = "done" /\ requests # <<>> /\ (call = 2 => mark > 2)) =>
        /\ CountKind(fetch_file, "[") = 1
        /\ CountKind(fetch_file, "]") = 1
        /\ fetch_file[Len(fetch_file)] = Close

\* C10, fetch half: a transfer without its Grantor sub-record does not abort
\* the run: both calls are made and each requests every batch of its range.
Claim_C10_FetchContinues ==
    fpc = "done" =>
        /\ call = 2
        /\ Len(requests) = NumRequests(range)
        /\ \A n \in 1..Len(results) : results[n].kind # "fatal"

\* the records of the items of a response that carry a TaxMapKey, in
\* response order
RECURSIVE RecordsOfItems(_)
RecordsOfItems(items) ==
    IF items = <<>> THEN <<>>
    ELSE (IF "TaxMapKey" \in DOMAIN Head(items)
          THEN <<extract_taxmapkey_fields(Head(items).TaxMapKey).value>>
          ELSE <<>>) \o RecordsOfItems(Tail(items))

\* the records of the batches that were processed, in batch order; a batch
\* whose request failed, or whose processing raised, has none
RECURSIVE RecordsOfBatches(_)
RecordsOfBatches(res) ==
    IF res = <<>> THEN <<>>
    ELSE (IF Head(res).kind = "ok" /\ "data" \in DOMAIN Head(res).response
          THEN RecordsOfItems(Head(res).response.data)
          ELSE <<>>) \o RecordsOfBatches(Tail(res))

\* C18: the batches of a call are requested in strictly increasing offset
\* order, and what the call has written is, in every state, exactly the
\* records of the items carrying a TaxMapKey of the batches processed so
\* far, each once, in batch order and then response order: nothing for a
\* failed batch, and a failure neither removes nor repeats the records of
\* another batch.
Thm_C18_InOrderExactlyOnce ==
    /\ \A m, n \in 1..Len(requests) :
          m < n => requests[m][1] < requests[n][1]
    /\ Values(WrittenByCall) = RecordsOfBatches(results)

\* C18 witness: a call of three batches has returned: the first response
\* had three items, two of them with a TaxMapKey, the second request
\* failed, the third response had one item; three records are in the file.
Wit_C18_AroundFailedBatch ==
    /\ Returned_fetch
    /\ Len(results) = 3
    /\ results[1].kind = "ok"
    /\ "data" \in DOMAIN results[1].response
    /\ Len(results[1].response.data) = 3
    /\ results[2].kind = "failed"
    /\ results[3].kind = "ok"
    /\ Len(Values(WrittenByCall)) = 3

\* C19: fetch_results never retries.  No offset is requested twice in a
\* call; every request, failed or not, advances the loop by one batch, so
\* the number of requests never exceeds ceil((end - start) / batchSize);
\* and a call that returns, whatever the pattern of failures, has issued
\* exactly that many requests and written the closing bracket last.
Thm_C19_NoRetry ==
    LET n_batches == CeilDiv(range[2] - range[1], range[3])
    IN  /\ \A m, n \in 1..Len(requests) :
              requests[m][1] = requests[n][1] => m = n
        /\ Len(results) = Len(requests)
        /\ Len(requests) <= n_batches
        /\ fpc = "loop" => i = Len(requests)
        /\ Returned_fetch =>
              /\ Len(requests) = n_batches
              /\ fetch_file[Len(fetch_file)] = Close

\* C19 witness: a call of three batches in which every request failed has
\* returned after three requests.
Wit_C19_AllFailed ==
    /\ Returned_fetch
    /\ Len(requests) = 3
    /\ \A n \in 1..3 : results[n].kind = "failed"
    /\ fetch_file[Len(fetch_file)] = Close

(***************************************************************************)
(* Enrichment path (specification Spec): selection, deduplication and the  *)
(* extractor                                                               *)
(***************************************************************************)
\* the selection of the fetch path, asked of a transfer of the enrichment
\* input (which may lack its Grantor)
SelectionPredicate(transfer) ==
    "Grantor" \in DOMAIN transfer /\ Qualifies(transfer)

\* the invocation is inside the loop of lines 85-125 with a transfer to
\* process
AtTransfer == pc = "loop" /\ transfers # <<>>
CurrentKey == KeyOfTransfer(parcel_number, Head(transfers))

\* C11 (as the code has it): the enrichment path applies no selection.  Each
\* transfer of the input whose key is in neither index is appended, whether
\* it qualifies or not, and is passed to the extractor exactly when its
\* DocumentLink is non-empty; a transfer whose key is in an index is
\* neither extracted nor appended.
Thm_C11_NoSelection ==
    [][AtTransfer =>
         IF CurrentKey \in existing_transfers \cup new_transfers
         THEN calls' = calls /\ output_file' = output_file
         ELSE /\ Len(Records(output_file')) = Len(Records(output_file)) + 1
              /\ RecordKey(Records(output_file')[Len(Records(output_file'))])
                    = CurrentKey
              /\ Len(calls') =
                    Len(calls) + (IF Truthy(CurrentKey[4]) THEN 1 ELSE 0)]_vars

\* C11 witness: a transfer dated 2023 and priced 150000 was passed to the
\* extractor and appended.
Wit_C11_UnselectedAppended ==
    \E n \in 1..Len(calls) :
        /\ calls[n].key[2] = Some("2023-12-31T23:59:59-10:00")
        /\ calls[n].key[3] = Some(150000)
        /\ calls[n].key \in RecordKeys(output_file)

\* C11 (as stated): a transfer that does not qualify is never passed to the
\* extractor and never appended.
Claim_C11_SelectionApplied ==
    [][(AtTransfer /\ ~SelectionPredicate(Head(transfers))) =>
          (calls' = calls /\ output_file' = output_file)]_vars

\* the index loaded at the start of the invocation: the keys of the
\* records of the file as it was, when it parsed
LoadedIndex ==
    IF file0 # NoFile /\ IsJsonArray(Content(file0))
    THEN RecordKeys(file0) ELSE {}

\* the records the invocation has appended
AppendedThisRun ==
    IF file0 # NoFile /\ IsJsonArray(Content(file0))
    THEN SubSeq(Records(output_file), Len(Records(file0)) + 1,
                Len(Records(output_file)))
    ELSE Records(output_file)

\* the keys of the transfers the loop has iterated so far (pc = "loop"):
\* all of the parcels before the current one, and of the current parcel the
\* transfers no longer in transfers
IteratedKeys ==
    LET p == Len(data0) - Len(data)
        all == IF p = 0 THEN <<>>
               ELSE GetDefault(data0[p], "Transfers", <<>>)
    IN  (IF p = 0 THEN {} ELSE InputKeys(SubSeq(data0, 1, p - 1)))
          \cup { KeyOfTransfer(parcel_number, all[k]) :
                   k \in 1..(Len(all) - Len(transfers)) }

\* how many of the records recs have the key k, and how many extractor
\* calls were made for it
CountKey(recs, k) ==
    Cardinality({n \in 1..Len(recs) : RecordKey(recs[n]) = k})
CallsFor(k) == Cardinality({n \in 1..Len(calls) : calls[n].key = k})

\* C16: within one run, for each RecordKey met in the input that is not in
\* the index loaded at the start, exactly one record has been appended and
\* the extractor has been invoked at most once (once when the link is
\* non-empty, never otherwise), however many times the key occurs; for a
\* key in the loaded index nothing is appended and the extractor is never
\* invoked.
Thm_C16_OncePerKey ==
    pc = "loop" =>
        LET appended == AppendedThisRun
            loaded == LoadedIndex
        IN  \A k \in IteratedKeys :
                IF k \in loaded
                THEN CountKey(appended, k) = 0 /\ CallsFor(k) = 0
                ELSE /\ CountKey(appended, k) = 1
                     /\ CallsFor(k) = (IF Truthy(k[4]) THEN 1 ELSE 0)

\* C16 witness: the loop is over for an input holding twice the parcel with
\* transfers T2 and T1, against a file that held the record of T1: one
\* extractor call and one record appended, for T2.
Wit_C16_TwiceInInput ==
    /\ pc = "loop"
    /\ data = <<>>
    /\ transfers = <<>>
    /\ data0 = <<[ParcelNumber |-> PN13, Transfers |-> <<T2, T1>>],
                 [ParcelNumber |-> PN13, Transfers |-> <<T2, T1>>]>>
    /\ LoadedIndex = {KeyOfTransfer(Some(PN13), T1)}
    /\ Len(calls) = 1
    /\ Len(AppendedThisRun) = 1

\* a run that appended records and ended in the handler of lines 136-142
\* has returned, and the next run loads (or fails to load) the file
ResumeAfterFailure ==
    /\ pc = "idle"
    /\ outcome = "exception"
    /\ Len(AppendedThisRun) >= 1
    /\ pc' = "read"

\* C17: after a run that appended k records and then ended in a caught
\* failure, the next run against the same output file loads those k
\* records into its index (so that it neither extracts nor appends them
\* again).
Claim_C17_ResumeLoadsAppended ==
    [][ResumeAfterFailure =>
          \A n \in 1..Len(AppendedThisRun) :
              RecordKey(AppendedThisRun[n]) \in existing_transfers']_vars

\* C17, the part of it that holds: the k records are loaded when the failed
\* run was the one that created the file.
Inv_C17_AfterFirstRun ==
    [][(ResumeAfterFailure /\ (file0 = NoFile \/ ~IsJsonArray(Content(file0))))
          => \A n \in 1..Len(AppendedThisRun) :
                RecordKey(AppendedThisRun[n]) \in existing_transfers']_vars

\* C20: every record the run has appended carries in ConveyanceTax exactly
\* what the extractor returned for its DocumentLink (an amount, "Not found"
\* or the text of an error), unmodified; it carries "ERROR" exactly when
\* the link is absent or empty, and then the extractor was not invoked.
\* (The extractor catches every exception itself, so no call raises.)
Thm_C20_TaxIsExtractorResult ==
    LET appended == AppendedThisRun
    IN  \A n \in 1..Len(appended) :
        LET rec == appended[n]
        IN  /\ Truthy(rec.BureauOfConveyancesLink) =>
                  /\ \E c \in 1..Len(calls) :
                        /\ calls[c].key = RecordKey(rec)
                        /\ calls[c].pdf_url = rec.BureauOfConveyancesLink[1]
                        /\ calls[c].returned = rec.ConveyanceTax
                  /\ \A c \in 1..Len(calls) :
                        calls[c].key = RecordKey(rec) =>
                            calls[c].returned = rec.ConveyanceTax
            /\ ~Truthy(rec.BureauOfConveyancesLink) =>
                  CallsFor(RecordKey(rec)) = 0
            /\ rec.ConveyanceTax = "ERROR"
                  <=> ~Truthy(rec.BureauOfConveyancesLink)

\* C20 witness: a completed run appended a record holding the text of an
\* extractor error and two records holding "ERROR", of a transfer without
\* link and of one whose link is empty; the extractor was called once.
Wit_C20_ErrorTextKept ==
    /\ pc = "idle"
    /\ outcome = "ok"
    /\ Len(calls) = 1
    /\ calls[1].returned = "Error accessing PDF: timeout"
    /\ \E k, m, n \in 1..Len(AppendedThisRun) :
          /\ AppendedThisRun[k].ConveyanceTax = "Error accessing PDF: timeout"
          /\ AppendedThisRun[m].ConveyanceTax = "ERROR"
          /\ AppendedThisRun[m].BureauOfConveyancesLink = None
          /\ AppendedThisRun[n].ConveyanceTax = "ERROR"
          /\ AppendedThisRun[n].BureauOfConveyancesLink = Some("")

\* the output file was absent, or did not parse, when the invocation began
PriorOutputUnusable ==
    /\ outcome # "none"
    /\ file0 = NoFile \/ ~IsJsonArray(Content(file0))

\* C13: when the prior output file is absent or does not parse, the index
\* loaded from it is empty, the file is re-initialised to the opening
\* bracket alone, and the run goes on to read and process the whole input:
\* when it completes, the file is one array holding exactly the transfers
\* of the input.
Thm_C13_UnusableOutputRestarts ==
    PriorOutputUnusable =>
        /\ existing_transfers = {}
        /\ pc = "read" =>
              (output_file = FileOf(<<Open>>) /\ outcome = "running")
        /\ (pc = "idle" /\ outcome = "ok") =>
              /\ IsJsonArray(Content(output_file))
              /\ RecordKeys(output_file) = InputKeys(data0)
              /\ Len(Records(output_file)) = Cardinality(InputKeys(data0))

\* C13 witness: a run that found an output file that does not parse
\* completed and appended records.
Wit_C13_RestartedOverCorruptFile ==
    /\ pc = "idle"
    /\ outcome = "ok"
    /\ file0 # NoFile
    /\ ~IsJsonArray(Content(file0))
    /\ Len(Records(file0)) >= 1
    /\ new_transfers # {}

(***************************************************************************)
(* Single calls (specification SpecCall)                                   *)
(***************************************************************************)
ExtractReturned == fn = "_extract_taxmapkey_fields" /\ ret # Pending

\* every transfer of the argument has its Grantor sub-record
HasGrantors(taxmapkey) ==
    \A n \in 1..Len(taxmapkey.Transfers) :
        "Grantor" \in DOMAIN taxmapkey.Transfers[n]

\* the dates of the model that are timestamps with an offset, by year
TimestampsOf2024 == {"2024-06-15T00:00:00-10:00"}

\* the SelectionPredicate as the claim words it
Selected(transfer) ==
    /\ "Date" \in DOMAIN transfer.Grantor
    /\ transfer.Grantor.Date \in TimestampsOf2024
    /\ "Price" \in DOMAIN transfer.Grantor
    /\ transfer.Grantor.Price >= 200000
    /\ "InstrumentType" \in DOMAIN transfer.Grantor
    /\ transfer.Grantor.InstrumentType = "DEED"
    /\ "BureauOfConveyancesLink" \in DOMAIN transfer.Grantor
    /\ transfer.Grantor.BureauOfConveyancesLink # ""

\* C12: _extract_taxmapkey_fields, given a parcel whose transfers carry
\* their Grantor, returns (it does not raise) and keeps exactly the
\* transfers that are selected, in their order: Date a timestamp with
\* offset in 2024, Price >= 200000, InstrumentType "DEED", link present and
\* non-empty.  A transfer whose Date does not parse is dropped and the
\* others are kept or dropped as if it were not there.  The transfer dated
\* 2023-12-31T23:59:59-10:00 is rejected, the one dated
\* 2024-06-15T00:00:00-10:00 with Price 250000, DEED and a link is kept.
Thm_C12_SelectionPredicate ==
    (ExtractReturned /\ "Transfers" \in DOMAIN arg /\ HasGrantors(arg)) =>
        /\ ~ret.raised
        /\ ret.value.Transfers = SelectSeq(arg.Transfers, Selected)
        /\ \A n \in 1..Len(ret.value.Transfers) :
              ret.value.Transfers[n] # T2
        /\ (\E n \in 1..Len(arg.Transfers) : arg.Transfers[n] = T1) =>
              (\E n \in 1..Len(ret.value.Transfers) :
                    ret.value.Transfers[n] = T1)

\* C12 witness: a parcel with a transfer whose Date does not parse followed
\* by a selected transfer priced exactly 200000: the call returned the
\* second alone.
Wit_C12_BadDateDropped ==
    /\ ExtractReturned
    /\ "Transfers" \in DOMAIN arg
    /\ Len(arg.Transfers) = 2
    /\ arg.Transfers[1] = TBadDate
    /\ arg.Transfers[2] =
          [Grantor |-> [Date |-> "2024-06-15T00:00:00-10:00",
                        Price |-> 200000, InstrumentType |-> "DEED",
                        BureauOfConveyancesLink |-> "L1"]]
    /\ ~ret.raised
    /\ ret.value.Transfers = <<arg.Transfers[2]>>

\* a string of digits without its leading zeros ("004" gives "4", "000"
\* gives "0")
RECURSIVE StripZeros(_)
StripZeros(s) ==
    IF Len(s) > 1 /\ s[1] = "0" THEN StripZeros(Tail(s)) ELSE s

\* zone-sec-plat-parcel-lot, and -cpr unless the CPR is 0000
TmkOf(s) ==
    <<s[1], "-", s[2], "-", s[3], "-">> \o StripZeros(SubSeq(s, 4, 6))
        \o <<"-">> \o StripZeros(SubSeq(s, 7, 9))
        \o (IF SubSeq(s, 10, 13) = <<"0", "0", "0", "0">> THEN <<>>
            ELSE <<"-">> \o StripZeros(SubSeq(s, 10, 13)))

\* C14: convert_to_tmk_format is total on strings.  No call raises; a
\* string that is not exactly 13 characters or holds a character that is
\* not a decimal digit is returned unchanged; a string of 13 digits gives
\* zone-sec-plat-parcel-lot, with -cpr appended exactly when the CPR is not
\* zero.
Claim_C14_Total ==
    (fn = "convert_to_tmk_format" /\ ret # Pending) =>
        /\ ~ret.raised
        /\ ret.value =
              IF Len(arg[1]) = 13
                   /\ \A n \in 1..13 : arg[1][n] \in Digits
              THEN TmkOf(arg[1])
              ELSE arg[1]

\* C14, the part of it that holds: whenever the call returns, the result
\* is the one the claim gives, a leading character that only str.isdigit
\* calls a digit being kept as the zone.
Inv_C14_WhenReturned ==
    (fn = "convert_to_tmk_format" /\ ret # Pending /\ ~ret.raised) =>
        ret.value =
            IF Len(arg[1]) = 13 /\ \A n \in 1..13 : arg[1][n] \in IsDigitChars
            THEN TmkOf(arg[1])
            ELSE arg[1]

CsvReturned == fn = "convert_to_csv" /\ ret # Pending

\* the value is a string that spells a number once its commas are removed
IsNumberWithCommas(v) ==
    IsStr(v) /\ IsDecimalNumeral(RemoveCommas(v.str))

\* the rows after the header are the items, one each and in order, with the
\* ConveyanceTax cell given by cell
RowsAre(cell(_)) ==
    /\ ~ret.raised
    /\ Len(ret.value) = Len(arg) + 1
    /\ ret.value[1] = HeaderRow
    /\ \A n \in 1..Len(arg) :
          ret.value[n + 1] =
              <<GetDefault(arg[n], "ParcelNumber", Str(<<>>)),
                GetDefault(arg[n], "Date", Str(<<>>)),
                GetDefault(arg[n], "Price", Str(<<>>)),
                cell(arg[n])>>

TaxAsClaimed(item) ==
    IF "ConveyanceTax" \in DOMAIN item
         /\ IsNumberWithCommas(item.ConveyanceTax)
    THEN Str(RemoveCommas(item.ConveyanceTax.str))
    ELSE Str(ERROR)

\* C15: convert_to_csv emits one row per input record, with the columns
\* ParcelNumber, Date, Price, ConveyanceTax; a ConveyanceTax that is a
\* number after removing commas is emitted with the commas removed, and
\* every other value (including a missing or non-string one) as ERROR.
Claim_C15_CsvRows == CsvReturned => RowsAre(TaxAsClaimed)

TaxExceptNan(item) ==
    IF "ConveyanceTax" \in DOMAIN item /\ IsStr(item.ConveyanceTax)
         /\ RemoveCommas(item.ConveyanceTax.str) = <<"n", "a", "n">>
    THEN Str(<<"n", "a", "n">>)
    ELSE TaxAsClaimed(item)

\* C15, the part of it that holds: the rows are as claimed for every
\* ConveyanceTax but the ones that spell "nan", which are emitted as nan.
Inv_C15_ExceptNan == CsvReturned => RowsAre(TaxExceptNan)

====
